---- MODULE Spec2Model ----
(***************************************************************************)
(* Hybrid retrieval pipeline of the Vietnam traffic-law RAG system:        *)
(* reciprocal rank fusion (src/app/core/retrieval.py), the rerank stage    *)
(* (src/app/core/rerank.py), the /query endpoint (src/app/main.py), the    *)
(* RetrievalService (src/services/retrieval.py, src/models/reranker.py),   *)
(* RAGService.generate_response_sync (src/services/rag.py), the backend    *)
(* connection singletons (src/app/db) and chunk_text (ingest_data.py).     *)
(*                                                                         *)
(* Scores: Python computes 1.0 / (k + rank + 1) in floating point.  The    *)
(* model keeps every score as an exact rational with the common            *)
(* denominator Scale, so a score s stands for the number s / Scale.        *)
(***************************************************************************)
EXTENDS Integers, Sequences, FiniteSets, TLC

\* ------------------------------------------------------------------ bounds

\* Longest hit list a backend returns in the model.
MaxLen == 3

\* A second value of the k parameter of reciprocal_rank_fusion, beside its
\* default, for direct calls.
KAlt == 1

\* Longest hit list a backend returns to a /query request (the largest top_k).
MaxHits == 2

\* Largest top_n of a request.
MaxTopN == 2

\* Longest result list in a response of the rerank API.
MaxResults == 2

\* Longest document list the ensemble retriever returns.
MaxDocs == 3

\* Largest k of a RetrievalService and of a call of it.
MaxK == 2

\* Longest text given to chunk_text.
MaxText == 6

\* Largest chunk_size given to chunk_text.
MaxChunkSize == 5

\* Largest top_k of the requests handled at the same time.
MaxSharedHits == 1

\* Default of the k parameter (retrieval.py:14) and the value hybrid_search
\* passes (retrieval.py:87).
KDefault == 60

KValues == {KDefault, KAlt}

\* Content texts of the indexed passages.
Contents == {"A", "B", "C"}

\* ------------------------------------------------------------- arithmetic

RECURSIVE GCD(_, _)
GCD(a, b) == IF b = 0 THEN a ELSE GCD(b, a % b)

LCM(a, b) == (a \div GCD(a, b)) * b

RECURSIVE LcmOfSet(_)
LcmOfSet(S) ==
    IF S = {} THEN 1
    ELSE LET x == CHOOSE y \in S : TRUE
         IN  LCM(x, LcmOfSet(S \ {x}))

\* Common denominator of every score the model can produce.
Scale ==
    LcmOfSet({kk + r : kk \in KValues,
                       r \in 1..(IF MaxLen > MaxHits THEN MaxLen ELSE MaxHits)})

\* ------------------------------------------------------------------- data

\* The hit at 1-based position i of the Qdrant result list (qdrant_conn.py
\* search): content, the backend's name, and the rest of the hit (raw score,
\* payload), which is particular to this hit and stands as its position.
QdrantHit(c, i) == [content |-> c, source |-> "qdrant", hit |-> i]

\* The hit at position i of the Elasticsearch result list (es_conn.py search).
EsHit(c, i) == [content |-> c, source |-> "elasticsearch", hit |-> i]

\* The content lists of at most n hits.
ContentLists(n) == UNION {[1..m -> Contents] : m \in 0..n}

\* The lists of at most n hits of pairwise different content: what a backend
\* returns whose index holds every passage once.
DistinctContentLists(n) ==
    {cs \in ContentLists(n) : \A i, j \in DOMAIN cs : i # j => cs[i] # cs[j]}

\* What a search of an index without repeated passages returns for limit = n.
QdrantHits(n) ==
    {[i \in DOMAIN cs |-> QdrantHit(cs[i], i)] : cs \in DistinctContentLists(n)}

EsHits(n) ==
    {[i \in DOMAIN cs |-> EsHit(cs[i], i)] : cs \in DistinctContentLists(n)}

\* What QdrantConnection.search can return for limit = n.
QdrantLists(n) ==
    {[i \in DOMAIN cs |-> QdrantHit(cs[i], i)] : cs \in ContentLists(n)}

\* What ElasticsearchConnection.search can return for size = n.
EsLists(n) ==
    {[i \in DOMAIN cs |-> EsHit(cs[i], i)] : cs \in ContentLists(n)}

\* dict.copy() followed by doc[key] = value.
WithField(doc, key, value) ==
    [f \in DOMAIN doc \cup {key} |-> IF f = key THEN value ELSE doc[f]]

\* The dict object at 1-based position pos of an argument list; list is the
\* list's position among the arguments.  copy tells a dict made by
\* dict.copy() from the one it was copied from.
Ref(list, pos) == [list |-> list, pos |-> pos, copy |-> FALSE]

\* doc = documents[idx] without .copy(): the name is bound to the argument's
\* own dict.
DictAlias(ref) == ref

\* dict.copy(): a new dict with the same items, an object of its own.
DictCopy(ref) == [ref EXCEPT !.copy = TRUE]

\* ----------------------------------------------- reciprocal_rank_fusion

\* 1.0 / (k + rank + 1) for the 0-based rank of enumerate(docs).
RRFTermOffByOne(kk, rank) == Scale \div (kk + rank + 2)

RRFTerm(kk, rank) == Scale \div (kk + rank + 1)

EmptyAcc == [order |-> <<>>, fused_scores |-> <<>>, doc_metadata |-> <<>>]

\* The loop body without the membership test: every occurrence is entered
\* anew.
VisitNoDedup(acc, doc, rank, kk) ==
    [order |-> Append(acc.order, doc.content),
     fused_scores |-> (doc.content :> RRFTerm(kk, rank)) @@ acc.fused_scores,
     doc_metadata |-> (doc.content :> doc) @@ acc.doc_metadata]

\* The loop body with = in place of +=: the term of the last source holding
\* the content replaces the sum.
VisitAssign(acc, doc, rank, kk) ==
    LET c == doc.content
        acc1 == IF c \notin DOMAIN acc.fused_scores
                THEN [order |-> Append(acc.order, c),
                      fused_scores |-> acc.fused_scores @@ (c :> 0),
                      doc_metadata |-> acc.doc_metadata @@ (c :> doc)]
                ELSE acc
    IN  [acc1 EXCEPT !.fused_scores[c] = RRFTerm(kk, rank)]

\* The loop body with += inside the if: only the first occurrence of a
\* content adds its term.
VisitFirstOccurrence(acc, doc, rank, kk) ==
    LET c == doc.content
    IN  IF c \notin DOMAIN acc.fused_scores
        THEN [order |-> Append(acc.order, c),
              fused_scores |-> acc.fused_scores @@ (c :> RRFTerm(kk, rank)),
              doc_metadata |-> acc.doc_metadata @@ (c :> doc)]
        ELSE acc

\* Body of the inner loop (retrieval.py:33-42) for one doc at 0-based rank.
\* order is the insertion order of the two dicts.
Visit(acc, doc, rank, kk) ==
    LET c == doc.content
        acc1 == IF c \notin DOMAIN acc.fused_scores
                THEN [order |-> Append(acc.order, c),
                      fused_scores |-> acc.fused_scores @@ (c :> 0),
                      doc_metadata |-> acc.doc_metadata @@ (c :> doc)]
                ELSE acc
    IN  [acc1 EXCEPT !.fused_scores[c] = @ + RRFTerm(kk, rank)]

\* for rank, doc in enumerate(docs), from position i on.
RECURSIVE ScanDocs(_, _, _, _)
ScanDocs(acc, docs, i, kk) ==
    IF i > Len(docs) THEN acc
    ELSE ScanDocs(Visit(acc, docs[i], i - 1, kk), docs, i + 1, kk)

\* for source, docs in results_dict.items(): the sources in insertion order.
RECURSIVE ScanSources(_, _, _, _)
ScanSources(acc, lists, j, kk) ==
    IF j > Len(lists) THEN acc
    ELSE ScanSources(ScanDocs(acc, lists[j], 1, kk), lists, j + 1, kk)

\* Where sorted(..., reverse=True) puts an item among those already placed:
\* behind every item whose score is not smaller (the sort is stable).
InsertPosReversingTies(out, c, score) ==
    1 + Cardinality({i \in 1..Len(out) : score[out[i]] > score[c]})

\* sorted without reverse=True: ascending order of score.
InsertPosAscending(out, c, score) ==
    1 + Cardinality({i \in 1..Len(out) : score[out[i]] <= score[c]})

InsertPos(out, c, score) ==
    1 + Cardinality({i \in 1..Len(out) : score[out[i]] >= score[c]})

InsertSorted(out, c, score) ==
    LET p == InsertPos(out, c, score)
    IN  SubSeq(out, 1, p - 1) \o <<c>> \o SubSeq(out, p, Len(out))

\* sorted(fused_scores.items(), key=lambda x: x[1], reverse=True)
RECURSIVE SortedItems(_, _, _, _)
SortedItems(out, order, i, score) ==
    IF i > Len(order) THEN out
    ELSE SortedItems(InsertSorted(out, order[i], score), order, i + 1, score)

\* reciprocal_rank_fusion(results_dict, k); lists is results_dict.values()
\* in the dict's insertion order.
ReciprocalRankFusion(lists, kk) ==
    LET acc == ScanSources(EmptyAcc, lists, 1, kk)
        sorted_items == SortedItems(<<>>, acc.order, 1, acc.fused_scores)
    IN  [i \in 1..Len(sorted_items) |->
            WithField(acc.doc_metadata[sorted_items[i]], "rrf_score",
                      acc.fused_scores[sorted_items[i]])]

\* The dict doc_metadata[c] refers to: the first hit of content c in the
\* scan of the sources (retrieval.py:36-38 stores the hit itself).
MetadataRef(lists, c) ==
    LET holds(j) == \E i \in DOMAIN lists[j] : lists[j][i].content = c
        j == CHOOSE j \in DOMAIN lists :
                 holds(j) /\ \A j2 \in DOMAIN lists : holds(j2) => j <= j2
        i == CHOOSE i \in DOMAIN lists[j] :
                 /\ lists[j][i].content = c
                 /\ \A i2 \in DOMAIN lists[j] : lists[j][i2].content = c => i <= i2
    IN  Ref(j, i)

\* The argument lists as reciprocal_rank_fusion leaves them: doc["rrf_score"]
\* = score is written to the dict doc names (retrieval.py:49-51).
InputsAfterFusion(lists, kk) ==
    LET acc == ScanSources(EmptyAcc, lists, 1, kk)
        written == {DictCopy(MetadataRef(lists, c)) : c \in DOMAIN acc.fused_scores}
    IN  [j \in DOMAIN lists |->
            [i \in DOMAIN lists[j] |->
                IF Ref(j, i) \in written
                THEN WithField(lists[j][i], "rrf_score",
                               acc.fused_scores[lists[j][i].content])
                ELSE lists[j][i]]]

\* ------------------------------------------- rerank_documents (app/core)

\* seq[:n] for n >= 0.
Take(seq, n) == SubSeq(seq, 1, IF n < Len(seq) THEN n ELSE Len(seq))

\* Relevance scores the cross-encoder gives.
RerankScores == {1, 2}

\* An index of a result item; Cardinality(Contents) is past the end of every
\* document list.
ResultIndexes == 0..Cardinality(Contents)

\* One entry of "results": {"index": i, "relevance_score": s}, or {} with
\* neither key.
ResultItems ==
    {[index |-> i, relevance_score |-> s] : i \in ResultIndexes, s \in RerankScores}
    \cup {<<>>}

\* What the POST to the rerank API can end in (rerank.py:33-45): the call
\* raises, times out after 30 s, answers with an error status
\* (raise_for_status), answers with a body that is no JSON, with JSON that
\* has no "results" key, with "results" whose items are no objects with an
\* integer index, or with a list of result items.
ApiExceptions == {"connect_error", "timeout", "http_error", "invalid_json"}

ApiResponsesOf(items) ==
    {[kind |-> x, results |-> <<>>] :
        x \in ApiExceptions \cup {"no_results_key", "malformed_results"}}
    \cup {[kind |-> "results", results |-> r] :
            r \in UNION {[1..n -> items] : n \in 0..MaxResults}}

ApiResponses == ApiResponsesOf(ResultItems)

\* Indexes of every kind an answer can carry: those of ResultIndexes, the
\* negative index of the last document, and one below -len(documents) for
\* every document list.
AnyIndexes == ResultIndexes \cup {-1, -(Cardinality(Contents) + 1)}

AnyResultItems ==
    ResultItems
    \cup {[index |-> i, relevance_score |-> 1] : i \in AnyIndexes \ ResultIndexes}

AnyApiResponses == ApiResponsesOf(AnyResultItems)

\* item.get("index", item.get("document_index", 0))
ItemIndex(item) ==
    IF "index" \in DOMAIN item THEN item.index
    ELSE IF "document_index" \in DOMAIN item THEN item.document_index
    ELSE 0

\* item.get("relevance_score", item.get("score", 0))
ItemScore(item) ==
    IF "relevance_score" \in DOMAIN item THEN item.relevance_score
    ELSE IF "score" \in DOMAIN item THEN item.score
    ELSE 0

\* documents[idx] with Python's negative indexes.
DocAt(documents, idx) ==
    IF idx >= 0 THEN documents[idx + 1] ELSE documents[Len(documents) + idx + 1]

\* The second loop (rerank.py:61-65) from item i on.
RECURSIVE RerankedDocs(_, _, _)
RerankedDocs(items, i, documents) ==
    IF i > Len(items) THEN <<>>
    ELSE (IF ItemIndex(items[i]) < Len(documents)
          THEN <<WithField(DocAt(documents, ItemIndex(items[i])),
                           "rerank_score", ItemScore(items[i]))>>
          ELSE <<>>)
         \o RerankedDocs(items, i + 1, documents)

\* The except branch without its slice: every document is returned.
FallbackAll(documents, n) == documents

\* documents[:top_n], the value of the except branch and of the else branch
\* (rerank.py:70-78).
Fallback(documents, n) == Take(documents, n)

\* The first loop without its slice: for item in rerank_results["results"].
AfterApiUnsliced(documents, n, resp) ==
    LET items == resp.results
    IN  IF resp.kind # "results" THEN Fallback(documents, n)
        ELSE IF \E i \in DOMAIN items : ItemIndex(items[i]) < -Len(documents)
             THEN Fallback(documents, n)
        ELSE RerankedDocs(items, 1, documents)

\* rerank_documents from the API's answer on (rerank.py:45-78).
AfterApi(documents, n, resp) ==
    LET items == Take(resp.results, n)
    IN  IF resp.kind \in ApiExceptions THEN Fallback(documents, n)
        ELSE IF resp.kind = "no_results_key" THEN Fallback(documents, n)
        ELSE IF resp.kind = "malformed_results" THEN Fallback(documents, n)
        ELSE IF \E i \in DOMAIN items : ItemIndex(items[i]) < -Len(documents)
             THEN Fallback(documents, n)   \* IndexError, caught at line 75
        ELSE RerankedDocs(items, 1, documents)

\* The argument documents as rerank_documents leaves it: doc["rerank_score"]
\* = score is written to the dict doc names, item after item, until an item
\* raises IndexError (rerank.py:61-65); the other paths write nothing.
DocumentsAfterRerank(documents, n, resp) ==
    IF resp.kind # "results" THEN documents
    ELSE LET items == Take(resp.results, n)
             raising == {i \in DOMAIN items :
                            ItemIndex(items[i]) < -Len(documents)}
             done == {i \in DOMAIN items :
                         /\ \A r \in raising : i < r
                         /\ ItemIndex(items[i]) < Len(documents)}
             pos(i) == IF ItemIndex(items[i]) >= 0
                       THEN ItemIndex(items[i]) + 1
                       ELSE Len(documents) + ItemIndex(items[i]) + 1
             target(i) == DictCopy(Ref(1, pos(i)))
             landed == {i \in done : ~target(i).copy}
             writes(p) == {i \in landed : target(i).pos = p}
             last(p) == CHOOSE i \in writes(p) : \A i2 \in writes(p) : i2 <= i
         IN  IF landed = {} THEN documents
             ELSE [p \in DOMAIN documents |->
                      IF writes(p) = {} THEN documents[p]
                      ELSE WithField(documents[p], "rerank_score",
                                     ItemScore(items[last(p)]))]

\* The function without its guard.
SkipsApiNever(documents) == FALSE

\* if not documents: return [] (rerank.py:25-26)
SkipsApi(documents) == documents = <<>>

\* The JSON body posted to the rerank API (rerank.py:30, 37-41).
ApiRequest(documents, n) ==
    [documents |-> [i \in DOMAIN documents |-> documents[i].content],
     top_n |-> n]

\* ------------------------------------------------------------------ state

VARIABLES
    pc,             \* position of the call or request in progress
    results_dict,   \* argument of reciprocal_rank_fusion: <<vector, keyword>>
    k,              \* argument k of reciprocal_rank_fusion
    merged_results, \* value returned by reciprocal_rank_fusion
    request,        \* the QueryRequest of the /query call: top_k, top_n
    qdrant_task,    \* the coroutine qdrant_client.search(query, limit=top_k)
    es_task,        \* the coroutine es_client.search(query, size=top_k)
    completed,      \* the backends whose search has ended, in that order
                    \* (a history of the search step, dropped once the
                    \* rerank stage has answered)
    deadline,       \* whether the query's deadline has passed, and over what
    documents,      \* argument documents of rerank_documents
    top_n,          \* argument top_n of rerank_documents
    api_calls,      \* the requests posted to the rerank API so far
    rerank_results, \* how the POST to the rerank API ended (response.json())
    reranked_docs,  \* value returned by rerank_documents
    response,       \* what the /query endpoint answered
    service,        \* the RetrievalService: self.top_k, self.use_rerank
    call,           \* the call of the service: method, k, use_rerank
    model_calls,    \* the pair lists given to the cross-encoder so far
    retrieved,      \* how the call of the service ended
    ensemble_calls, \* what each ensemble_retriever.invoke so far returned
    rag,            \* the generate_response_sync call: k, documents, context
    text,           \* argument text of chunk_text, a sequence of characters
    chunk_size,     \* argument chunk_size of chunk_text
    overlap,        \* argument overlap of chunk_text
    start,          \* local start of chunk_text
    chunks,         \* local chunks of chunk_text, its return value
    queries,        \* the /query requests in progress at the same time, each
                    \* with its position and the locals of its calls
    clients,        \* the module globals _qdrant_client_instance and
                    \* _es_client_instance
    created         \* how often each connection class was instantiated

vars == <<pc, results_dict, k, merged_results, request, qdrant_task, es_task,
          completed, deadline,
          documents, top_n, api_calls, rerank_results, reranked_docs, response,
          service, call, model_calls, retrieved, ensemble_calls, rag,
          text, chunk_size, overlap, start, chunks,
          queries, clients, created>>

fusion_vars == <<results_dict, k, merged_results>>

search_vars == <<request, qdrant_task, es_task, completed, deadline>>

rerank_vars == <<documents, top_n, api_calls, rerank_results, reranked_docs>>

service_vars == <<service, call, model_calls, retrieved, ensemble_calls, rag>>

chunk_vars == <<text, chunk_size, overlap, start, chunks>>

shared_vars == <<queries, clients, created>>

NotStarted == [status |-> "not_started", result |-> <<>>]

Pending == [status |-> "pending", result |-> <<>>]

Returned(hits) == [status |-> "returned", result |-> hits]

\* The search coroutine ended in an exception: the backend or the embedding
\* API is down, answers with an error, or the client's timeout expired.
Raised == [status |-> "raised", result |-> <<>>]

NoRequest == [top_k |-> 0, top_n |-> 0]

\* No POST to the rerank API has ended.
NoApiResponse == [kind |-> "none", results |-> <<>>]

NoResponse == [status |-> 0, contexts |-> <<>>, answer |-> "none"]

\* The deadline of the query has not passed.
NoDeadline == [expired |-> FALSE, pending |-> {}]

\* Nothing of a /query request is in progress.
NoQuery ==
    /\ request = NoRequest
    /\ qdrant_task = NotStarted
    /\ es_task = NotStarted
    /\ completed = <<>>
    /\ deadline = NoDeadline
    /\ response = NoResponse

\* An argument left at its default None is <<>>, a given value v is <<v>>.
None == <<>>

Some(v) == <<v>>

NoCall == [method |-> "none", k |-> None, use_rerank |-> None]

NotReturned == [raised |-> FALSE, value |-> <<>>]

\* generate_response_sync has not been called.
NoRag == [k |-> None, documents |-> <<>>, context |-> <<>>, answer |-> "none"]

\* No RetrievalService is in use.
NoService ==
    /\ service = [top_k |-> 0, use_rerank |-> FALSE]
    /\ call = NoCall
    /\ model_calls = <<>>
    /\ retrieved = NotReturned
    /\ ensemble_calls = <<>>
    /\ rag = NoRag

\* The requests that can be in progress at the same time.
QueryIds == {"q1", "q2"}

\* A request of the event loop: where it stands, its two search coroutines,
\* the fused list, the rerank API's answer and the reranked list.
QueryAt(at) ==
    [pc |-> at, qdrant_task |-> NotStarted, es_task |-> NotStarted,
     merged_results |-> <<>>, rerank_results |-> NoApiResponse,
     reranked_docs |-> <<>>]

\* _qdrant_client_instance = None, _es_client_instance = None
\* (qdrant_conn.py:106, es_conn.py:100)
NoClients == [qdrant |-> <<>>, es |-> <<>>]

\* No requests are handled at the same time.
NoSharing ==
    /\ queries = <<>>
    /\ clients = NoClients
    /\ created = [qdrant |-> 0, es |-> 0]

\* chunk_text has not been called.
NoChunking ==
    /\ text = <<>>
    /\ chunk_size = 0
    /\ overlap = 0
    /\ start = 0
    /\ chunks = <<>>

\* rerank_documents has not been called.
NoRerank ==
    /\ documents = <<>>
    /\ top_n = 0
    /\ api_calls = <<>>
    /\ rerank_results = NoApiResponse
    /\ reranked_docs = <<>>

\* ------------------------------------- direct calls of the fusion function

InitFusion ==
    /\ pc = "fusion_called"
    /\ results_dict \in {<<v, w>> : v \in QdrantLists(MaxLen), w \in EsLists(MaxLen)}
    /\ k \in KValues
    /\ merged_results = <<>>
    /\ NoQuery
    /\ NoRerank
    /\ NoService
    /\ NoChunking
    /\ NoSharing

FusionReturn ==
    /\ pc = "fusion_called"
    /\ merged_results' = ReciprocalRankFusion(results_dict, k)
    /\ results_dict' = InputsAfterFusion(results_dict, k)
    /\ pc' = "fusion_returned"
    /\ UNCHANGED <<k, search_vars, rerank_vars, response>>
    /\ UNCHANGED service_vars
    /\ UNCHANGED shared_vars
    /\ UNCHANGED chunk_vars

NextFusion == FusionReturn

SpecFusion == InitFusion /\ [][NextFusion]_vars

\* ------------------------------------------ direct calls of the rerank stage

\* The fused candidate lists hybrid_search can return.
FusedLists ==
    {ReciprocalRankFusion(<<v, w>>, KDefault) :
        v \in QdrantHits(MaxHits), w \in EsHits(MaxHits)}

InitRerank ==
    /\ pc = "rerank_called"
    /\ documents \in FusedLists
    /\ top_n \in 0..MaxTopN
    /\ api_calls = <<>>
    /\ rerank_results = NoApiResponse
    /\ reranked_docs = <<>>
    /\ results_dict = <<<<>>, <<>>>>
    /\ k = KDefault
    /\ merged_results = <<>>
    /\ NoQuery
    /\ NoService
    /\ NoChunking
    /\ NoSharing

\* rerank_documents up to its await of the POST (rerank.py:25-45).
RerankEnter ==
    /\ pc = "rerank_called"
    /\ IF SkipsApi(documents)
       THEN /\ reranked_docs' = <<>>
            /\ pc' = "rerank_returned"
            /\ UNCHANGED api_calls
       ELSE /\ api_calls' = Append(api_calls, ApiRequest(documents, top_n))
            /\ pc' = "rerank_awaiting"
            /\ UNCHANGED reranked_docs
    /\ UNCHANGED <<documents, top_n, rerank_results, fusion_vars, search_vars,
                   response>>
    /\ UNCHANGED service_vars
    /\ UNCHANGED shared_vars
    /\ UNCHANGED chunk_vars

\* The POST ends and rerank_documents runs to its return (rerank.py:45-78).
RerankApiAnswers ==
    /\ pc = "rerank_awaiting"
    /\ \E resp \in ApiResponses :
          /\ rerank_results' = resp
          /\ reranked_docs' = AfterApi(documents, top_n, resp)
          /\ documents' = DocumentsAfterRerank(documents, top_n, resp)
    /\ pc' = "rerank_returned"
    /\ UNCHANGED <<top_n, api_calls, fusion_vars, search_vars, response>>
    /\ UNCHANGED service_vars
    /\ UNCHANGED shared_vars
    /\ UNCHANGED chunk_vars

NextRerank == RerankEnter \/ RerankApiAnswers

\* The same step for an answer with indexes of every kind.
RerankApiAnswersAny ==
    /\ pc = "rerank_awaiting"
    /\ \E resp \in AnyApiResponses :
          /\ rerank_results' = resp
          /\ reranked_docs' = AfterApi(documents, top_n, resp)
          /\ documents' = DocumentsAfterRerank(documents, top_n, resp)
    /\ pc' = "rerank_returned"
    /\ UNCHANGED <<top_n, api_calls, fusion_vars, search_vars, response>>
    /\ UNCHANGED service_vars
    /\ UNCHANGED shared_vars
    /\ UNCHANGED chunk_vars

NextRerankAny == RerankEnter \/ RerankApiAnswersAny

SpecRerankAny == InitRerank /\ [][NextRerankAny]_vars

SpecRerank == InitRerank /\ [][NextRerank]_vars

\* ------------------------------- direct calls of either pipeline function

InitFunctions == InitFusion \/ InitRerank

NextFunctions == NextFusion \/ NextRerank

SpecFunctions == InitFunctions /\ [][NextFunctions]_vars

\* ------------------------------------------------------ the /query endpoint

InitQuery ==
    /\ pc = "received"
    /\ request \in [top_k : 1..MaxHits, top_n : 1..MaxTopN]
    /\ qdrant_task = NotStarted
    /\ es_task = NotStarted
    /\ completed = <<>>
    /\ deadline = NoDeadline
    /\ response = NoResponse
    /\ results_dict = <<<<>>, <<>>>>
    /\ k = KDefault
    /\ merged_results = <<>>
    /\ NoRerank
    /\ NoService
    /\ NoChunking
    /\ NoSharing

\* query_endpoint calls hybrid_search, which creates both search coroutines
\* and awaits asyncio.gather (main.py:78, retrieval.py:70-78).
HybridSearchStart ==
    /\ pc = "received"
    /\ qdrant_task' = Pending
    /\ es_task' = Pending
    /\ pc' = "searching"
    /\ UNCHANGED <<request, completed, deadline, fusion_vars, rerank_vars, response>>
    /\ UNCHANGED service_vars
    /\ UNCHANGED shared_vars
    /\ UNCHANGED chunk_vars

\* limit=top_k and size=top_k: the number of hits each search call of the
\* request asks its backend for (retrieval.py:74-75).
SearchLimit == request.top_k

\* qdrant_client.search ends: at most limit hits, or an exception.
QdrantSearchEnds ==
    /\ qdrant_task.status = "pending"
    /\ \/ \E hits \in QdrantHits(SearchLimit) : qdrant_task' = Returned(hits)
       \/ qdrant_task' = Raised
    /\ completed' = Append(completed, "qdrant")
    /\ UNCHANGED <<pc, request, es_task, deadline, fusion_vars, rerank_vars,
                   response>>
    /\ UNCHANGED service_vars
    /\ UNCHANGED shared_vars
    /\ UNCHANGED chunk_vars

\* es_client.search ends: at most size hits, or an exception.
EsSearchEnds ==
    /\ es_task.status = "pending"
    /\ \/ \E hits \in EsHits(SearchLimit) : es_task' = Returned(hits)
       \/ es_task' = Raised
    /\ completed' = Append(completed, "elasticsearch")
    /\ UNCHANGED <<pc, request, qdrant_task, deadline, fusion_vars, rerank_vars,
                   response>>
    /\ UNCHANGED service_vars
    /\ UNCHANGED shared_vars
    /\ UNCHANGED chunk_vars

\* raise HTTPException(status_code=500, ...) (main.py:119-121)
Http500 == [status |-> 500, contexts |-> <<>>, answer |-> "none"]

\* A not-found answer raised as an HTTPException inside the try block: the
\* except of the endpoint turns it into status 500.
NotFoundRaised == [status |-> 500, contexts |-> <<>>, answer |-> "none"]

\* The not-found QueryResponse (main.py:82-87).
NotFound == [status |-> 200, contexts |-> <<>>, answer |-> "not_found"]

\* asyncio.gather without return_exceptions hands the first exception of a
\* search coroutine to hybrid_search, which does not catch it; it reaches
\* the except of query_endpoint (retrieval.py:78, main.py:119-121).  The
\* other coroutine is not cancelled.
GatherRaises ==
    /\ pc = "searching"
    /\ qdrant_task.status = "raised" \/ es_task.status = "raised"
    /\ response' = Http500
    /\ pc' = "responded"
    /\ UNCHANGED <<search_vars, fusion_vars, rerank_vars>>
    /\ UNCHANGED service_vars
    /\ UNCHANGED shared_vars
    /\ UNCHANGED chunk_vars

\* A join that resumes as soon as one of the two coroutines has returned
\* (asyncio.wait with FIRST_COMPLETED).
GatherDoneFirstCompleted ==
    qdrant_task.status = "returned" \/ es_task.status = "returned"

\* await asyncio.gather(qdrant_task, es_task) resumes with both results once
\* both coroutines have returned (retrieval.py:78).
GatherDone ==
    qdrant_task.status = "returned" /\ es_task.status = "returned"

\* The dict built in the order in which the two searches ended (results
\* collected with asyncio.as_completed).
ResultsDictCompletionOrder(qdrant_results, es_results) ==
    IF completed # <<>> /\ completed[1] = "elasticsearch"
    THEN <<es_results, qdrant_results>>
    ELSE <<qdrant_results, es_results>>

\* The dict built with the keyword list first.
ResultsDictKeywordFirst(qdrant_results, es_results) ==
    <<es_results, qdrant_results>>

\* results_dict = {"vector": qdrant_results, "keyword": es_results}
ResultsDict(qdrant_results, es_results) == <<qdrant_results, es_results>>

\* Both searches returned: hybrid_search fuses them (retrieval.py:80-91);
\* query_endpoint answers not-found on an empty list (main.py:80-87) and
\* otherwise calls rerank_documents, which runs to its POST (main.py:90-94,
\* rerank.py:25-45).
GatherReturns ==
    /\ pc = "searching"
    /\ GatherDone
    /\ k' = KDefault
    /\ LET lists == ResultsDict(qdrant_task.result, es_task.result)
       IN  /\ merged_results' = ReciprocalRankFusion(lists, k')
           /\ results_dict' = InputsAfterFusion(lists, k')
    /\ IF merged_results' = <<>>
       THEN /\ response' = NotFound
            /\ pc' = "responded"
            /\ UNCHANGED rerank_vars
       ELSE /\ documents' = merged_results'
            /\ top_n' = request.top_n
            /\ UNCHANGED response
            /\ IF SkipsApi(documents')
               THEN /\ reranked_docs' = <<>>
                    /\ pc' = "generating"
                    /\ UNCHANGED <<api_calls, rerank_results>>
               ELSE /\ api_calls' = Append(api_calls, ApiRequest(documents', top_n'))
                    /\ pc' = "reranking"
                    /\ UNCHANGED <<reranked_docs, rerank_results>>
    /\ UNCHANGED search_vars
    /\ UNCHANGED service_vars
    /\ UNCHANGED shared_vars
    /\ UNCHANGED chunk_vars

\* The POST ends, rerank_documents returns and query_endpoint awaits
\* generate_answer (rerank.py:45-78, main.py:97).  candidates, the fused list
\* hybrid_search returned, is the list object passed as documents.
QueryRerankAnswers ==
    /\ pc = "reranking"
    /\ \E resp \in ApiResponses :
          /\ rerank_results' = resp
          /\ reranked_docs' = AfterApi(documents, top_n, resp)
          /\ documents' = DocumentsAfterRerank(documents, top_n, resp)
          /\ merged_results' = documents'
    /\ pc' = "generating"
    /\ completed' = <<>>
    /\ UNCHANGED <<top_n, api_calls, results_dict, k, request, qdrant_task,
                   es_task, deadline, response>>
    /\ UNCHANGED service_vars
    /\ UNCHANGED shared_vars
    /\ UNCHANGED chunk_vars

\* Context(content=..., score=..., source=...) (main.py:101-105)
Context(doc) ==
    [content |-> IF "content" \in DOMAIN doc THEN doc.content ELSE "",
     score |-> IF "rerank_score" \in DOMAIN doc THEN doc.rerank_score
               ELSE IF "rrf_score" \in DOMAIN doc THEN doc.rrf_score
               ELSE 0,
     source |-> IF "source" \in DOMAIN doc THEN doc.source ELSE "unknown"]

\* generate_answer returns, with the LLM's answer or, as it catches every
\* error of the LLM call, with its apology (generation.py:69-71); the
\* endpoint answers (main.py:99-117).
GenerateReturns ==
    /\ pc = "generating"
    /\ response' = [status |-> 200,
                    contexts |-> [i \in DOMAIN reranked_docs |->
                                     Context(reranked_docs[i])],
                    answer |-> "generated"]
    /\ pc' = "responded"
    /\ UNCHANGED <<search_vars, fusion_vars, rerank_vars>>
    /\ UNCHANGED service_vars
    /\ UNCHANGED shared_vars
    /\ UNCHANGED chunk_vars

NextQuery ==
    \/ HybridSearchStart
    \/ QdrantSearchEnds
    \/ EsSearchEnds
    \/ GatherRaises
    \/ GatherReturns
    \/ QueryRerankAnswers
    \/ GenerateReturns

SpecQuery == InitQuery /\ [][NextQuery]_vars

\* ------------------------------------- the /query endpoint under a deadline

\* The calls of the request that are awaited and have not ended.
PendingCalls ==
    (IF qdrant_task.status = "pending" THEN {"qdrant"} ELSE {})
        \cup (IF es_task.status = "pending" THEN {"elasticsearch"} ELSE {})
        \cup (IF pc = "reranking" THEN {"rerank"} ELSE {})

\* The time allowed for the query passes while the request is in progress.
\* query_endpoint awaits hybrid_search and rerank_documents without a
\* timeout of its own, and neither function takes one: nothing is cancelled
\* and no step of the request changes (main.py:78, 90-94, retrieval.py:78,
\* rerank.py:33-45).
DeadlineExpires ==
    /\ pc \in {"searching", "reranking", "generating"}
    /\ ~deadline.expired
    /\ deadline' = [expired |-> TRUE, pending |-> PendingCalls]
    /\ UNCHANGED <<pc, request, qdrant_task, es_task, completed, fusion_vars,
                   rerank_vars, response>>
    /\ UNCHANGED service_vars
    /\ UNCHANGED shared_vars
    /\ UNCHANGED chunk_vars

NextDeadline == NextQuery \/ DeadlineExpires

SpecDeadline == InitQuery /\ [][NextDeadline]_vars

\* ------------------------------------- /query requests at the same time

\* Every request asks for the same numbers of hits and of contexts.
SharedRequest == [top_k |-> MaxSharedHits, top_n |-> MaxTopN]

\* The answers of the rerank API to these requests: a timeout, and two
\* results that put the second candidate first.
SharedApiResponses ==
    {[kind |-> "timeout", results |-> <<>>],
     [kind |-> "results",
      results |-> <<[index |-> 1, relevance_score |-> 2],
                    [index |-> 0, relevance_score |-> 1]>>]}

\* A getter without its test: every call makes a new connection object.
NeedsClientAlways(instance) == TRUE

\* if _qdrant_client_instance is None (qdrant_conn.py:111, es_conn.py:105)
NeedsClient(instance) == instance = None

\* The fused list kept in a variable of the module: one for all requests.
FrameOfModule(q) == "q1"

\* merged_results and candidates are locals: every call of hybrid_search
\* and of query_endpoint has its own (retrieval.py:87, main.py:78).
Frame(q) == q

InitShared ==
    /\ pc = "serving"
    /\ queries = [q \in QueryIds |-> QueryAt("received")]
    /\ clients = NoClients
    /\ created = [qdrant |-> 0, es |-> 0]
    /\ results_dict = <<<<>>, <<>>>>
    /\ k = KDefault
    /\ merged_results = <<>>
    /\ NoQuery
    /\ NoRerank
    /\ NoService
    /\ NoChunking

\* The other variables of the module stay as they are.
SharedFrame ==
    /\ UNCHANGED <<pc, fusion_vars, search_vars, rerank_vars, response>>
    /\ UNCHANGED service_vars
    /\ UNCHANGED chunk_vars

\* A request enters hybrid_search: get_qdrant_client() and get_es_client()
\* return the module's connection objects, making them first when there are
\* none; both search coroutines are created and gather is awaited
\* (main.py:78, retrieval.py:70-78, qdrant_conn.py:108-113,
\* es_conn.py:102-107).
SharedStart(q) ==
    /\ queries[q].pc = "received"
    /\ IF NeedsClient(clients.qdrant)
       THEN /\ created' = [created EXCEPT !.qdrant = @ + 1,
                                          !.es = IF NeedsClient(clients.es)
                                                 THEN @ + 1 ELSE @]
            /\ clients' = [qdrant |-> Some(created'.qdrant),
                           es |-> IF NeedsClient(clients.es)
                                  THEN Some(created'.es) ELSE clients.es]
       ELSE /\ created' = [created EXCEPT !.es = IF NeedsClient(clients.es)
                                                 THEN @ + 1 ELSE @]
            /\ clients' = [clients EXCEPT !.es = IF NeedsClient(clients.es)
                                                 THEN Some(created'.es) ELSE @]
    /\ queries' = [queries EXCEPT ![q].pc = "searching",
                                  ![q].qdrant_task = Pending,
                                  ![q].es_task = Pending]
    /\ SharedFrame

\* The request's qdrant_client.search ends; search writes no attribute of
\* the connection object (qdrant_conn.py:76-102).
SharedQdrantEnds(q) ==
    /\ queries[q].qdrant_task.status = "pending"
    /\ \/ \E hits \in QdrantHits(SharedRequest.top_k) :
             queries' = [queries EXCEPT ![q].qdrant_task = Returned(hits)]
       \/ queries' = [queries EXCEPT ![q].qdrant_task = Raised]
    /\ UNCHANGED <<clients, created>>
    /\ SharedFrame

\* The request's es_client.search ends (es_conn.py:59-92).
SharedEsEnds(q) ==
    /\ queries[q].es_task.status = "pending"
    /\ \/ \E hits \in EsHits(SharedRequest.top_k) :
             queries' = [queries EXCEPT ![q].es_task = Returned(hits)]
       \/ queries' = [queries EXCEPT ![q].es_task = Raised]
    /\ UNCHANGED <<clients, created>>
    /\ SharedFrame

\* gather hands the exception of a search to the except of the endpoint
\* (retrieval.py:78, main.py:119-121).
SharedGatherRaises(q) ==
    /\ queries[q].pc = "searching"
    /\ \/ queries[q].qdrant_task.status = "raised"
       \/ queries[q].es_task.status = "raised"
    /\ queries' = [queries EXCEPT ![q].pc = "failed"]
    /\ UNCHANGED <<clients, created>>
    /\ SharedFrame

\* Both searches of the request returned: fusion, then the not-found answer
\* or the POST of rerank_documents (retrieval.py:80-91, main.py:80-94).
SharedGatherReturns(q) ==
    /\ queries[q].pc = "searching"
    /\ queries[q].qdrant_task.status = "returned"
    /\ queries[q].es_task.status = "returned"
    /\ LET fused == ReciprocalRankFusion(
                        ResultsDict(queries[q].qdrant_task.result,
                                    queries[q].es_task.result), KDefault)
       IN  queries' = [queries EXCEPT
                          ![q].pc = IF fused = <<>> THEN "not_found"
                                    ELSE "reranking",
                          ![Frame(q)].merged_results = fused]
    /\ UNCHANGED <<clients, created>>
    /\ SharedFrame

\* The request's POST ends and rerank_documents returns (rerank.py:45-78).
SharedRerankAnswers(q) ==
    /\ queries[q].pc = "reranking"
    /\ \E resp \in SharedApiResponses :
          LET candidates == queries[Frame(q)].merged_results
          IN  queries' = [queries EXCEPT
                             ![q].pc = "generating",
                             ![q].rerank_results = resp,
                             ![q].reranked_docs =
                                 AfterApi(candidates, SharedRequest.top_n, resp),
                             ![Frame(q)].merged_results =
                                 DocumentsAfterRerank(candidates,
                                                      SharedRequest.top_n, resp)]
    /\ UNCHANGED <<clients, created>>
    /\ SharedFrame

\* generate_answer returns and the endpoint answers (main.py:97-117).
SharedGenerateReturns(q) ==
    /\ queries[q].pc = "generating"
    /\ queries' = [queries EXCEPT ![q].pc = "responded"]
    /\ UNCHANGED <<clients, created>>
    /\ SharedFrame

NextShared ==
    \E q \in QueryIds :
        \/ SharedStart(q)
        \/ SharedQdrantEnds(q)
        \/ SharedEsEnds(q)
        \/ SharedGatherRaises(q)
        \/ SharedGatherReturns(q)
        \/ SharedRerankAnswers(q)
        \/ SharedGenerateReturns(q)

SpecShared == InitShared /\ [][NextShared]_vars

\* ------------------------------- rerank_documents (models/reranker.py)

\* if not documents: return [] (models/reranker.py:43-45)
SkipsModel(docs) == docs = <<>>

\* The list returned once the cross-encoder gave scores[i] to docs[i]:
\* zip, sort by score descending, cut to top_k unless it is None
\* (models/reranker.py:69-82).  docs are (text, score) pairs.
CrossEncoderReranked(docs, scores, top_k) ==
    LET order == SortedItems(<<>>, [i \in DOMAIN docs |-> i], 1, scores)
        reranked == [j \in DOMAIN order |-> <<docs[order[j]][1], scores[order[j]]>>]
    IN  IF top_k = None THEN reranked ELSE Take(reranked, top_k[1])

\* What the forward pass of the cross-encoder over n pairs ends in: a score
\* per pair, or an exception.
ModelOutcomes(n) ==
    {[raised |-> FALSE, scores |-> sc] : sc \in [1..n -> RerankScores]}
    \cup {[raised |-> TRUE, scores |-> <<>>]}

\* rerank_documents of models/reranker.py from the forward pass on: an
\* exception of the model is not caught, and the log line reads
\* reranked[0][1], an IndexError when the cut list is empty
\* (models/reranker.py:56-82).
CrossEncoderResult(docs, out, top_k) ==
    LET reranked == CrossEncoderReranked(docs, out.scores, top_k)
    IN  IF out.raised \/ reranked = <<>>
        THEN [raised |-> TRUE, value |-> <<>>]
        ELSE [raised |-> FALSE, value |-> reranked]

\* ----------------------------------------------------- RetrievalService

\* A langchain Document the ensemble retriever returns at position i.
Document(c, i) == [page_content |-> c, metadata |-> i]

\* What self.ensemble_retriever.invoke(query) can return.
EnsembleLists ==
    {[i \in DOMAIN cs |-> Document(cs[i], i)] : cs \in ContentLists(MaxDocs)}

Services == [top_k : 1..MaxK, use_rerank : BOOLEAN]

Calls ==
    [method : {"retrieve", "retrieve_with_scores"},
     k : {None} \cup {Some(n) : n \in 0..MaxK},
     use_rerank : {None, Some(TRUE), Some(FALSE)}]

\* if k is None: k = self.top_k (services/retrieval.py:200-201)
EffectiveK(svc, c) == IF c.k = None THEN svc.top_k ELSE c.k[1]

\* use_rerank = use_rerank or self.use_rerank: a given False falls back to
\* the service's setting.
UseRerankOrDefault(svc, c) ==
    IF c.use_rerank = None \/ c.use_rerank = Some(FALSE)
    THEN svc.use_rerank ELSE TRUE

\* if use_rerank is None: use_rerank = self.use_rerank
\* (services/retrieval.py:202-203)
EffectiveUseRerank(svc, c) ==
    IF c.use_rerank = None THEN svc.use_rerank ELSE c.use_rerank[1]

\* documents = self.ensemble_retriever.invoke(query)[:retrieve_k]
\* (services/retrieval.py:209-210)
Retrieved(svc, c, ensemble) ==
    Take(ensemble,
         IF EffectiveUseRerank(svc, c) THEN EffectiveK(svc, c) * 2
         ELSE EffectiveK(svc, c))

\* if use_rerank and documents (services/retrieval.py:215)
Reranks(svc, c, docs) == EffectiveUseRerank(svc, c) /\ docs # <<>>

\* docs_to_rerank = [(doc.page_content, 0.0) for doc in documents]
DocsToRerank(docs) == [i \in DOMAIN docs |-> <<docs[i].page_content, 0>>]

\* content_to_doc[content]: of the documents with that content the dict
\* comprehension keeps the last (services/retrieval.py:225).
ContentToDoc(docs, c) ==
    docs[CHOOSE i \in DOMAIN docs :
            /\ docs[i].page_content = c
            /\ \A j \in (i + 1)..Len(docs) : docs[j].page_content # c]

\* The value returned on the rerank path (services/retrieval.py:224-229,
\* 273-287).
RerankedValue(c, docs, reranked) ==
    IF c.method = "retrieve"
    THEN [i \in DOMAIN reranked |-> ContentToDoc(docs, reranked[i][1])]
    ELSE [i \in DOMAIN reranked |->
            [content |-> reranked[i][1],
             metadata |-> ContentToDoc(docs, reranked[i][1]).metadata,
             score |-> reranked[i][2],
             reranked |-> TRUE]]

\* The records built with a score of 1.0 in place of 0.0.
PlainValueUnitScore(svc, c, docs) ==
    LET first == Take(docs, EffectiveK(svc, c))
    IN  IF c.method = "retrieve" THEN first
        ELSE [i \in DOMAIN first |->
                [content |-> first[i].page_content,
                 metadata |-> first[i].metadata,
                 score |-> 1,
                 reranked |-> FALSE]]

\* The value returned without reranking (services/retrieval.py:231, 289-300).
PlainValue(svc, c, docs) ==
    LET first == Take(docs, EffectiveK(svc, c))
    IN  IF c.method = "retrieve" THEN first
        ELSE [i \in DOMAIN first |->
                [content |-> first[i].page_content,
                 metadata |-> first[i].metadata,
                 score |-> 0,
                 reranked |-> FALSE]]

InitService ==
    /\ pc = "service_ready"
    /\ service \in Services
    /\ call = NoCall
    /\ model_calls = <<>>
    /\ retrieved = NotReturned
    /\ ensemble_calls = <<>>
    /\ rag = NoRag
    /\ results_dict = <<<<>>, <<>>>>
    /\ k = KDefault
    /\ merged_results = <<>>
    /\ NoQuery
    /\ NoRerank
    /\ NoChunking
    /\ NoSharing

\* RetrievalService.retrieve / retrieve_with_scores run for the call c, the
\* ensemble retriever returning one of lists (services/retrieval.py:183-300).
\* The cross-encoder is not guarded against its own exceptions, neither in
\* models/reranker.py nor here.
ServiceRuns(c, lists) ==
    \E ensemble \in lists :
        LET docs == Retrieved(service, c, ensemble)
        IN  /\ call' = c
            /\ ensemble_calls' = Append(ensemble_calls, ensemble)
            /\ IF Reranks(service, c, docs) /\ ~SkipsModel(DocsToRerank(docs))
               THEN /\ model_calls' = Append(model_calls, DocsToRerank(docs))
                    /\ \E out \in ModelOutcomes(Len(docs)) :
                          LET res == CrossEncoderResult(DocsToRerank(docs), out,
                                         Some(EffectiveK(service, c)))
                          IN  retrieved' =
                                 IF res.raised THEN res
                                 ELSE [raised |-> FALSE,
                                       value |-> RerankedValue(c, docs, res.value)]
               ELSE /\ UNCHANGED model_calls
                    /\ retrieved' =
                          [raised |-> FALSE,
                           value |-> IF Reranks(service, c, docs)
                                     THEN RerankedValue(c, docs, <<>>)
                                     ELSE PlainValue(service, c, docs)]

\* A call of retrieve or retrieve_with_scores.
ServiceCall ==
    /\ pc = "service_ready"
    /\ \E c \in Calls : ServiceRuns(c, EnsembleLists)
    /\ pc' = "service_returned"
    /\ UNCHANGED <<service, rag, fusion_vars, search_vars, rerank_vars, response>>
    /\ UNCHANGED shared_vars
    /\ UNCHANGED chunk_vars

\* A direct call rerank_documents(query, documents, top_k) of
\* models/reranker.py, as its __main__ block makes (models/reranker.py:98).
CrossEncoderCall ==
    /\ pc = "service_ready"
    /\ \E ensemble \in EnsembleLists, tk \in {None} \cup {Some(n) : n \in 0..MaxK} :
          LET docs == DocsToRerank(ensemble)
          IN  /\ call' = [method |-> "rerank_documents", k |-> tk, use_rerank |-> None]
              /\ IF SkipsModel(docs)
                 THEN /\ UNCHANGED model_calls
                      /\ retrieved' = [raised |-> FALSE, value |-> <<>>]
                 ELSE /\ model_calls' = Append(model_calls, docs)
                      /\ \E out \in ModelOutcomes(Len(docs)) :
                            retrieved' = CrossEncoderResult(docs, out, tk)
    /\ pc' = "service_returned"
    /\ UNCHANGED <<service, ensemble_calls, rag, fusion_vars, search_vars,
                   rerank_vars, response>>
    /\ UNCHANGED shared_vars
    /\ UNCHANGED chunk_vars

NextService == ServiceCall \/ CrossEncoderCall

SpecService == InitService /\ [][NextService]_vars

\* Every way the reranker is reached: direct calls of the rerank stage, and
\* the RetrievalService and direct calls of the cross-encoder.
InitRerankers == InitRerank \/ InitService

NextRerankers == NextRerank \/ NextService

SpecRerankers == InitRerankers /\ [][NextRerankers]_vars

\* ------------------------------------ RAGService.generate_response_sync

\* What the ensemble retriever returns from an index that holds every
\* passage once.
DistinctEnsembleLists ==
    {[i \in DOMAIN cs |-> Document(cs[i], i)] : cs \in DistinctContentLists(MaxDocs)}

\* generate_response_sync(question, k) is called on a RAGService, whose
\* retrieval_service has the top_k and use_rerank given at construction
\* (services/rag.py:56-67, 111).
InitRag ==
    /\ pc = "rag_called"
    /\ service \in Services
    /\ rag \in {[NoRag EXCEPT !.k = kk] : kk \in {None} \cup {Some(n) : n \in 0..MaxK}}
    /\ call = NoCall
    /\ model_calls = <<>>
    /\ retrieved = NotReturned
    /\ ensemble_calls = <<>>
    /\ results_dict = <<<<>>, <<>>>>
    /\ k = KDefault
    /\ merged_results = <<>>
    /\ NoQuery
    /\ NoRerank
    /\ NoChunking
    /\ NoSharing

\* documents = self.retrieval_service.retrieve(question, k) (rag.py:128); an
\* exception of the reranker leaves generate_response_sync.
RagRetrieve ==
    /\ pc = "rag_called"
    /\ ServiceRuns([method |-> "retrieve", k |-> rag.k, use_rerank |-> None],
                   DistinctEnsembleLists)
    /\ rag' = [rag EXCEPT !.documents = retrieved'.value]
    /\ pc' = IF retrieved'.raised THEN "rag_raised" ELSE "rag_retrieved"
    /\ UNCHANGED <<service, fusion_vars, search_vars, rerank_vars, response>>
    /\ UNCHANGED shared_vars
    /\ UNCHANGED chunk_vars

\* context = self.retrieval_service.retrieve_as_json(question, k)
\* (rag.py:131), which calls retrieve_with_scores and dumps its records as
\* JSON text (services/retrieval.py:319-320); context is kept as the list of
\* the records dumped.
RagRetrieveAsJson ==
    /\ pc = "rag_retrieved"
    /\ ServiceRuns([method |-> "retrieve_with_scores", k |-> rag.k,
                    use_rerank |-> None],
                   DistinctEnsembleLists)
    /\ rag' = [rag EXCEPT !.context = retrieved'.value]
    /\ pc' = IF retrieved'.raised THEN "rag_raised" ELSE "rag_generating"
    /\ UNCHANGED <<service, fusion_vars, search_vars, rerank_vars, response>>
    /\ UNCHANGED shared_vars
    /\ UNCHANGED chunk_vars

\* answer = self.generator_service.generate_sync(question, context); the
\* LLM call answers or raises (rag.py:135-143, services/generator.py:100).
RagGenerate ==
    /\ pc = "rag_generating"
    /\ \/ /\ rag' = [rag EXCEPT !.answer = "generated"]
          /\ pc' = "rag_returned"
       \/ /\ pc' = "rag_raised"
          /\ UNCHANGED rag
    /\ UNCHANGED <<service, call, model_calls, retrieved, ensemble_calls,
                   fusion_vars, search_vars, rerank_vars, response>>
    /\ UNCHANGED shared_vars
    /\ UNCHANGED chunk_vars

NextRag == RagRetrieve \/ RagRetrieveAsJson \/ RagGenerate

SpecRag == InitRag /\ [][NextRag]_vars

\* ------------------------------------------------- chunk_text (ingest)

\* The characters of a text: a letter, a blank and two of the marks
\* chunk_text looks for.
Chars == {"a", " ", ".", "?"}

Texts == UNION {[1..n -> Chars] : n \in 0..MaxText}

\* The loop is followed for at most this many chunks; a call whose start
\* grows at every iteration needs no more than len(text).
MaxChunks == MaxText + 2

\* A slice bound as Python reads it: negative bounds count from the end, and
\* every bound is brought into 0..len.
SliceBound(seq, b) ==
    IF b < 0 THEN (IF Len(seq) + b < 0 THEN 0 ELSE Len(seq) + b)
    ELSE IF b > Len(seq) THEN Len(seq) ELSE b

\* seq[a:b]
PySlice(seq, a, b) == SubSeq(seq, SliceBound(seq, a) + 1, SliceBound(seq, b))

\* str.rfind(ch): the 0-based index of the last ch, or -1.
RFind(seq, ch) ==
    IF \E i \in DOMAIN seq : seq[i] = ch
    THEN (CHOOSE i \in DOMAIN seq :
              seq[i] = ch /\ \A j \in DOMAIN seq : seq[j] = ch => j <= i) - 1
    ELSE -1

Max3(a, b, c) ==
    IF a >= b /\ a >= c THEN a ELSE IF b >= c THEN b ELSE c

\* str.strip(): the text without its leading and trailing blanks.
RECURSIVE Strip(_)
Strip(seq) ==
    IF seq = <<>> THEN seq
    ELSE IF Head(seq) = " " THEN Strip(Tail(seq))
    ELSE IF seq[Len(seq)] = " " THEN Strip(SubSeq(seq, 1, Len(seq) - 1))
    ELSE seq

InitChunk ==
    /\ pc = "chunking"
    /\ text \in Texts
    /\ chunk_size \in 1..MaxChunkSize
    /\ overlap \in 0..(chunk_size - 1)
    /\ start = 0
    /\ chunks = <<>>
    /\ results_dict = <<<<>>, <<>>>>
    /\ k = KDefault
    /\ merged_results = <<>>
    /\ NoQuery
    /\ NoRerank
    /\ NoService
    /\ NoSharing

\* One iteration of the while loop (ingest_data.py:35-52).
ChunkStep ==
    /\ pc = "chunking"
    /\ start < Len(text)
    /\ Len(chunks) < MaxChunks
    /\ LET whole_end == start + chunk_size
           whole == PySlice(text, start, whole_end)
           split_point == Max3(RFind(whole, "."), RFind(whole, "?"),
                               RFind(whole, "!"))
           cut == whole_end < Len(text) /\ 2 * split_point > chunk_size
           chunk == IF cut THEN PySlice(whole, 0, split_point + 1) ELSE whole
           end == IF cut THEN start + split_point + 1 ELSE whole_end
       IN  /\ chunks' = Append(chunks, Strip(chunk))
           /\ start' = end - overlap
    /\ UNCHANGED <<pc, text, chunk_size, overlap>>
    /\ UNCHANGED <<fusion_vars, search_vars, rerank_vars, response>>
    /\ UNCHANGED service_vars
    /\ UNCHANGED shared_vars

\* The loop test fails and chunk_text returns chunks (ingest_data.py:35, 54).
ChunkReturn ==
    /\ pc = "chunking"
    /\ ~(start < Len(text))
    /\ pc' = "chunk_returned"
    /\ UNCHANGED chunk_vars
    /\ UNCHANGED <<fusion_vars, search_vars, rerank_vars, response>>
    /\ UNCHANGED service_vars
    /\ UNCHANGED shared_vars

NextChunk == ChunkStep \/ ChunkReturn

SpecChunk == InitChunk /\ [][NextChunk]_vars

\* ------------------------------------------------------- fusion: claims

Vector == results_dict[1]

Keyword == results_dict[2]

ContentsOf(list) == {list[i].content : i \in DOMAIN list}

NoRepeats(list) ==
    \A i, j \in DOMAIN list : i # j => list[i].content # list[j].content

\* 1 / (k + r) for the 1-based rank r of content c in a list without
\* repeats, 0 when the list does not contain c.
Contribution(list, c, kk) ==
    IF c \in ContentsOf(list)
    THEN Scale \div (kk + (CHOOSE r \in DOMAIN list : list[r].content = c))
    ELSE 0

\* C1: when no source list repeats a content, every fused result's rrf_score
\* is the sum over the sources containing its content of 1/(k + r), r the
\* content's 1-based rank in that source; a content of one source only
\* scores exactly 1/(k + r1).
C1_RRFScoreFormula ==
    (pc = "fusion_returned" /\ NoRepeats(Vector) /\ NoRepeats(Keyword)) =>
        \A i \in DOMAIN merged_results :
            merged_results[i].rrf_score =
                Contribution(Vector, merged_results[i].content, k)
                + Contribution(Keyword, merged_results[i].content, k)

\* A call without repeats where one content is in both lists at different
\* ranks and another in one list only, not at rank 1.
C1_Witness ==
    /\ pc = "fusion_returned"
    /\ NoRepeats(Vector) /\ NoRepeats(Keyword)
    /\ \E i \in DOMAIN Vector, j \in DOMAIN Keyword :
          i # j /\ Vector[i].content = Keyword[j].content
    /\ \E j \in DOMAIN Keyword :
          j > 1 /\ Keyword[j].content \notin ContentsOf(Vector)
    /\ Len(merged_results) = Cardinality(Contents)

\* C2: the fused output holds every distinct content of either input exactly
\* once and nothing else; its length is the number of distinct contents.
C2_EveryContentOnce ==
    pc = "fusion_returned" =>
        /\ ContentsOf(merged_results) = ContentsOf(Vector) \cup ContentsOf(Keyword)
        /\ NoRepeats(merged_results)
        /\ Len(merged_results) =
              Cardinality(ContentsOf(Vector) \cup ContentsOf(Keyword))

\* A call where a content is in both lists, one is repeated inside a list,
\* and the last of the output comes from the last rank of one list only.
C2_Witness ==
    /\ pc = "fusion_returned"
    /\ ContentsOf(Vector) \cap ContentsOf(Keyword) # {}
    /\ ~NoRepeats(Vector)
    /\ Len(Keyword) = MaxLen
    /\ Keyword[MaxLen].content \notin ContentsOf(Vector)
    /\ merged_results[Len(merged_results)].content = Keyword[MaxLen].content

\* Position at which content c is first met when the vector list is scanned
\* and then the keyword list.
FirstSeen(c) ==
    LET scan == Vector \o Keyword
    IN  CHOOSE i \in DOMAIN scan :
            /\ scan[i].content = c
            /\ \A j \in 1..(i - 1) : scan[j].content # c

\* C3: the fused output is in non-increasing order of rrf_score and results
\* of equal rrf_score are in the order their contents were first met.
C3_SortedStable ==
    pc = "fusion_returned" =>
        \A i, j \in DOMAIN merged_results :
            i < j =>
                /\ merged_results[i].rrf_score >= merged_results[j].rrf_score
                /\ (merged_results[i].rrf_score = merged_results[j].rrf_score
                      => FirstSeen(merged_results[i].content)
                           < FirstSeen(merged_results[j].content))

\* A call whose output has two results of equal score behind a better one
\* that was met later than both.
C3_Witness ==
    /\ pc = "fusion_returned"
    /\ \E i, j \in DOMAIN merged_results :
          /\ i < j
          /\ merged_results[i].rrf_score = merged_results[j].rrf_score
    /\ \E i, j \in DOMAIN merged_results :
          /\ i < j
          /\ merged_results[i].rrf_score > merged_results[j].rrf_score
          /\ FirstSeen(merged_results[i].content)
               > FirstSeen(merged_results[j].content)

\* The contents of a list, in its order.
ContentSeq(list) == [i \in DOMAIN list |-> list[i].content]

\* One of the two lists is empty and the other repeats no content.
OneListEmpty ==
    /\ pc = "fusion_returned"
    /\ \/ Keyword = <<>> /\ NoRepeats(Vector)
       \/ Vector = <<>> /\ NoRepeats(Keyword)

\* C19: fusing a list L of pairwise distinct contents with an empty list
\* returns exactly the records of L in L's order, the i-th (1-based) one with
\* rrf_score 1/(k + i).
C19_FusionWithEmptyList ==
    OneListEmpty =>
        LET L == Vector \o Keyword
        IN  /\ Len(merged_results) = Len(L)
            /\ \A i \in DOMAIN L :
                  merged_results[i] = WithField(L[i], "rrf_score", Scale \div (k + i))

\* The keyword list is empty and the vector list has MaxLen different
\* contents, the last of them last in the output.
C19_Witness ==
    /\ OneListEmpty
    /\ Keyword = <<>>
    /\ Len(Vector) = MaxLen
    /\ Len(merged_results) = MaxLen
    /\ merged_results[MaxLen].content = Vector[MaxLen].content

\* The call with the semantic list [D1, D2] and the lexical list [D2, D3]
\* and k = 60 has returned; D1, D2, D3 are the contents A, B, C.
ExampleCall ==
    /\ pc = "fusion_returned"
    /\ k = KDefault
    /\ ContentSeq(Vector) = <<"A", "B">>
    /\ ContentSeq(Keyword) = <<"B", "C">>

\* C20 as claimed: the call returns the order [D2, D1, D3] with the scores
\* D2 = 1/61 + 1/61, D1 = 1/61 and D3 = 1/62.
C20_ExampleAsClaimed ==
    ExampleCall =>
        /\ ContentSeq(merged_results) = <<"B", "A", "C">>
        /\ merged_results[1].rrf_score =
              Scale \div (KDefault + 1) + Scale \div (KDefault + 1)
        /\ merged_results[2].rrf_score = Scale \div (KDefault + 1)
        /\ merged_results[3].rrf_score = Scale \div (KDefault + 2)

\* C20, amended: the call returns the order [D2, D1, D3] with the scores
\* D2 = 1/62 + 1/61 (rank 2 of the semantic list, rank 1 of the lexical
\* list), D1 = 1/61 and D3 = 1/62.
C20_ExampleScores ==
    ExampleCall =>
        /\ ContentSeq(merged_results) = <<"B", "A", "C">>
        /\ merged_results[1].rrf_score =
              Scale \div (KDefault + 2) + Scale \div (KDefault + 1)
        /\ merged_results[2].rrf_score = Scale \div (KDefault + 1)
        /\ merged_results[3].rrf_score = Scale \div (KDefault + 2)

\* The example call has returned three results.
C20_Witness ==
    /\ ExampleCall
    /\ Len(merged_results) = 3
    /\ merged_results[1].source = "qdrant"

\* The sum of 1 / (k + p) over the 1-based positions p of content c in the
\* list, from position i on.
RECURSIVE OccurrenceSum(_, _, _, _)
OccurrenceSum(list, c, kk, i) ==
    IF i > Len(list) THEN 0
    ELSE (IF list[i].content = c THEN Scale \div (kk + i) ELSE 0)
         + OccurrenceSum(list, c, kk, i + 1)

\* C28: when a source list holds a content at several positions, the fused
\* output still has one entry for every content, and the entry's rrf_score
\* is the sum of 1/(k + p) over every position p at which the content
\* occurs in either list, the repeated positions included.
C28_RepeatsSummedIntoOne ==
    (pc = "fusion_returned" /\ (~NoRepeats(Vector) \/ ~NoRepeats(Keyword))) =>
        \A c \in ContentsOf(Vector) \cup ContentsOf(Keyword) :
            /\ Cardinality({i \in DOMAIN merged_results :
                                merged_results[i].content = c}) = 1
            /\ \A i \in DOMAIN merged_results :
                  merged_results[i].content = c =>
                      merged_results[i].rrf_score =
                          OccurrenceSum(Vector, c, k, 1)
                          + OccurrenceSum(Keyword, c, k, 1)

\* A call where one content is twice in the vector list and once in the
\* keyword list, next to a content that occurs once.
C28_Witness ==
    /\ pc = "fusion_returned"
    /\ \E i, j \in DOMAIN Vector, m \in DOMAIN Keyword :
          /\ i < j
          /\ Vector[i].content = Vector[j].content
          /\ Keyword[m].content = Vector[i].content
          /\ \E r \in DOMAIN merged_results :
                /\ merged_results[r].content = Vector[i].content
                /\ merged_results[r].rrf_score =
                      Scale \div (k + i) + Scale \div (k + j) + Scale \div (k + m)
    /\ Len(merged_results) = 2

\* ------------------------------------------------ /query endpoint: claims

\* The first hit of a list with content c.
FirstHit(list, c) ==
    list[CHOOSE i \in DOMAIN list :
            /\ list[i].content = c
            /\ \A j \in 1..(i - 1) : list[j].content # c]

\* Both searches of the request returned and hybrid_search has fused them.
FusedBoth ==
    /\ pc \in {"reranking", "generating", "responded"}
    /\ qdrant_task.status = "returned"
    /\ es_task.status = "returned"

\* C4: for a content returned by both backends the one fused result is the
\* record of the vector (Qdrant) list with rrf_score added; nothing of the
\* keyword record is kept.
C4_VectorRecordKept ==
    FusedBoth =>
        \A c \in ContentsOf(qdrant_task.result) \cap ContentsOf(es_task.result) :
            \A i \in DOMAIN merged_results :
                merged_results[i].content = c =>
                    /\ merged_results[i] =
                          WithField(FirstHit(qdrant_task.result, c), "rrf_score",
                                    merged_results[i].rrf_score)
                    /\ merged_results[i].source = "qdrant"

\* A fused request where a content is at rank 2 of the vector list and at
\* rank 1 of the keyword list.
C4_Witness ==
    /\ FusedBoth
    /\ Len(qdrant_task.result) = 2
    /\ Len(es_task.result) >= 1
    /\ qdrant_task.result[2].content = es_task.result[1].content
    /\ qdrant_task.result[1].content # es_task.result[1].content
    /\ merged_results[1].content = es_task.result[1].content

\* C5: when exactly one of the two search calls raised and the other
\* returned, the request ends in a normal answer (status 200) built from the
\* surviving source's results.
C5_OneSourceFailureTolerated ==
    (/\ pc = "responded"
     /\ \/ qdrant_task.status = "raised" /\ es_task.status = "returned"
        \/ qdrant_task.status = "returned" /\ es_task.status = "raised")
    => response.status = 200

\* C7: when both search calls raised, the request ends in the not-found
\* answer and never in an error.
C7_BothSourcesFailNotFound ==
    (/\ pc = "responded"
     /\ qdrant_task.status = "raised"
     /\ es_task.status = "raised")
    => response = NotFound

\* C8: when both backends return empty lists, fusion returns an empty list
\* and the request ends normally in the not-found answer with no contexts,
\* without a call of the rerank API.
C8_EmptyInputsNotFound ==
    (/\ pc = "responded"
     /\ qdrant_task = Returned(<<>>)
     /\ es_task = Returned(<<>>))
    => /\ merged_results = <<>>
       /\ response.status = 200
       /\ response.contexts = <<>>
       /\ response.answer = "not_found"
       /\ api_calls = <<>>

\* A request answered after both backends returned no hit.
C8_Witness ==
    /\ pc = "responded"
    /\ qdrant_task = Returned(<<>>)
    /\ es_task = Returned(<<>>)
    /\ response.status # 0

\* ------------------------------------------------- rerank stage: claims

FailedKinds == ApiExceptions \cup {"no_results_key", "malformed_results"}

C9_NeverRerankEmpty ==
    /\ \A i \in DOMAIN api_calls : api_calls[i].documents # <<>>
    /\ \A i \in DOMAIN model_calls : model_calls[i] # <<>>
    /\ (pc = "rerank_returned" /\ documents = <<>>) =>
          (api_calls = <<>> /\ reranked_docs = <<>>)

\* rerank_documents of the rerank stage was called with an empty list and
\* has returned.
C9_Witness ==
    /\ pc = "rerank_returned"
    /\ documents = <<>>
    /\ top_n > 0
    /\ api_calls = <<>>

\* C10: a call of retrieve or retrieve_with_scores with use_rerank = False
\* never invokes the reranker, whatever the service's own setting and the
\* number of documents retrieved.
C10_NoRerankWhenDisabled ==
    (/\ pc = "service_returned"
     /\ call.method \in {"retrieve", "retrieve_with_scores"}
     /\ call.use_rerank = Some(FALSE))
    => model_calls = <<>>

\* A service that reranks by default was called with use_rerank = False and
\* returned two documents.
C10_Witness ==
    /\ pc = "service_returned"
    /\ service.use_rerank
    /\ call.method = "retrieve_with_scores"
    /\ call.use_rerank = Some(FALSE)
    /\ ~retrieved.raised
    /\ Len(retrieved.value) = 2
    /\ model_calls = <<>>

\* ------------------------------------- rerank stage: order and provenance

\* The rerank API answered with a list of result items.
RerankSucceeded ==
    /\ pc = "rerank_returned"
    /\ rerank_results.kind = "results"

\* C11: on a successful rerank call the output of the rerank stage is in
\* non-increasing order of relevance score and no result item the stage left
\* out scores higher than one it returned, whatever order the API lists its
\* result items in.
C11_RerankedSortedByScore ==
    RerankSucceeded =>
        /\ \A i, j \in DOMAIN reranked_docs :
              i < j => reranked_docs[i].rerank_score >= reranked_docs[j].rerank_score
        /\ \A j \in DOMAIN rerank_results.results :
              (j > top_n /\ ItemIndex(rerank_results.results[j]) < Len(documents)) =>
                  \A i \in DOMAIN reranked_docs :
                      reranked_docs[i].rerank_score
                          >= ItemScore(rerank_results.results[j])

\* C13: every result returned through the fallback path carries provenance
\* fusion_fallback and every successfully reranked result carries provenance
\* reranked.
C13_ProvenanceMarked ==
    (pc = "rerank_returned" /\ api_calls # <<>>) =>
        \A i \in DOMAIN reranked_docs :
            /\ "provenance" \in DOMAIN reranked_docs[i]
            /\ reranked_docs[i].provenance =
                  (IF rerank_results.kind = "results"
                   THEN "reranked" ELSE "fusion_fallback")

\* -------------------------------------- /query endpoint: the final list

\* C12: the final list of a query has exactly min(top_n, n) items, n the
\* number of fused candidates, with reranking and with rerank fallback.
C12_FinalSizeMinKN ==
    (pc = "responded" /\ FusedBoth) =>
        Len(response.contexts) =
            (IF request.top_n < Len(merged_results)
             THEN request.top_n ELSE Len(merged_results))

\* C14: whenever fusion yields a candidate and top_n >= 1, the list handed to
\* generate_answer is non-empty, whatever the rerank API answered.
C14_NonEmptyWhenCandidates ==
    (/\ pc \in {"generating", "responded"}
     /\ FusedBoth
     /\ merged_results # <<>>
     /\ request.top_n >= 1)
    => reranked_docs # <<>>

\* C16: the context list returned for a query holds no two entries of the
\* same content, whatever the rerank API answered.
C16_ContextsDeduplicated ==
    (pc = "responded" /\ response.status = 200) =>
        \A i, j \in DOMAIN response.contexts :
            i # j => response.contexts[i].content # response.contexts[j].content

\* ---------------------------------- /query endpoint: order of the steps

\* A search call of the request has been started and has not ended.
SearchPending ==
    qdrant_task.status = "pending" \/ es_task.status = "pending"

\* hybrid_search has fused the two lists of the request.
FusionDone ==
    \/ pc \in {"reranking", "generating"}
    \/ pc = "responded" /\ response.status = 200

\* C21: within one query fusion happens only after both search calls have
\* ended, the rerank call starts only after fusion and on its output, the
\* answer is assembled only after the rerank stage has returned, and the
\* rerank call never overlaps a search call.
C21_StepsStrictlyOrdered ==
    /\ FusionDone =>
          /\ ~SearchPending
          /\ qdrant_task.status = "returned" /\ es_task.status = "returned"
    /\ merged_results # <<>> => FusionDone
    /\ api_calls # <<>> =>
          /\ FusionDone
          /\ api_calls = <<ApiRequest(merged_results, request.top_n)>>
    /\ pc = "reranking" =>
          /\ ~SearchPending
          /\ rerank_results = NoApiResponse
          /\ response = NoResponse
    /\ (response.status = 200 /\ response # NotFound) =>
          /\ rerank_results # NoApiResponse
          /\ response.contexts =
                [i \in DOMAIN reranked_docs |-> Context(reranked_docs[i])]

\* A request answered after both searches returned hits, the fused list was
\* sent to the rerank API and the API answered with result items.
C21_Witness ==
    /\ pc = "responded"
    /\ response.status = 200
    /\ Len(qdrant_task.result) > 0 /\ Len(es_task.result) > 0
    /\ Len(api_calls) = 1
    /\ rerank_results.kind = "results"
    /\ Len(response.contexts) = 2

\* Position of the first hit of content c in a list.
FirstPos(list, c) ==
    CHOOSE i \in DOMAIN list :
        /\ list[i].content = c
        /\ \A j \in 1..(i - 1) : list[j].content # c

\* hybrid_search has just returned the fused list of the request: the rerank
\* call is pending, or the list was empty and the request is answered.
JustFused ==
    /\ FusedBoth
    /\ pc = "reranking" \/ response = NotFound

\* C22: the fused ranking is determined by the two result lists alone,
\* merged vector list first and keyword list second, whichever search ended
\* first: every result is the first record of its content in the vector list
\* followed by the keyword list, scored with the sum of its reciprocal ranks,
\* and results are in descending order of score, ties in the order of that
\* scan.
C22_InterleavingIndependent ==
    JustFused =>
        LET scan == qdrant_task.result \o es_task.result
        IN  /\ ContentsOf(merged_results) = ContentsOf(scan)
            /\ \A i \in DOMAIN merged_results :
                  merged_results[i] =
                      WithField(FirstHit(scan, merged_results[i].content),
                                "rrf_score",
                                Contribution(qdrant_task.result,
                                             merged_results[i].content, KDefault)
                                + Contribution(es_task.result,
                                               merged_results[i].content, KDefault))
            /\ \A i, j \in DOMAIN merged_results :
                  i < j =>
                      /\ merged_results[i].rrf_score >= merged_results[j].rrf_score
                      /\ (merged_results[i].rrf_score = merged_results[j].rrf_score
                            => FirstPos(scan, merged_results[i].content)
                                 < FirstPos(scan, merged_results[j].content))

\* The keyword search ended before the vector search; the lists share a
\* content at rank 2 and their first hits, of different content, tie.
C22_Witness ==
    /\ JustFused
    /\ completed = <<"elasticsearch", "qdrant">>
    /\ Len(qdrant_task.result) = 2 /\ Len(es_task.result) = 2
    /\ qdrant_task.result[1].content # es_task.result[1].content
    /\ qdrant_task.result[2].content = es_task.result[2].content
    /\ merged_results[1].content = es_task.result[2].content
    /\ merged_results[1].source = "qdrant"
    /\ merged_results[2] = WithField(qdrant_task.result[1], "rrf_score",
                                     merged_results[2].rrf_score)
    /\ merged_results[3].rrf_score = merged_results[2].rrf_score

\* C23: the rerank stage submits exactly the first min(len, 2 * top_n) fused
\* candidates, in one call per query.
C23_SubmitsFirstTwiceTopN ==
    /\ Len(api_calls) <= 1
    /\ \A i \in DOMAIN api_calls :
          api_calls[i].documents =
              ContentSeq(Take(merged_results, 2 * request.top_n))

\* C24: every backend search call of a query asks for at least 2 * top_n
\* candidates, for every admissible top_k and top_n.
C24_SearchAsksTwiceTopN ==
    (qdrant_task.status # "not_started" \/ es_task.status # "not_started") =>
        SearchLimit >= 2 * request.top_n

\* ------------------------------------------ /query endpoint: the deadline

\* The search step of the request ended without an exception.
SearchesJoined ==
    /\ pc \in {"reranking", "generating", "responded"}
    /\ qdrant_task.status = "returned"
    /\ es_task.status = "returned"

\* C25: a call that is pending when the deadline of the query expires is
\* cancelled and counts as failed: a search pending at the deadline
\* contributes an empty list to the fusion, a rerank call pending at the
\* deadline ends in the fallback to the first top_n fused candidates, and
\* nothing the call returned afterwards is in the output.
C25_DeadlineCancelsPending ==
    /\ ("qdrant" \in deadline.pending /\ SearchesJoined)
            => results_dict[1] = <<>>
    /\ ("elasticsearch" \in deadline.pending /\ SearchesJoined)
            => results_dict[2] = <<>>
    /\ ("rerank" \in deadline.pending /\ pc \in {"generating", "responded"})
            => reranked_docs = Fallback(documents, top_n)

\* ------------------------------------------ pipeline functions: the inputs

\* No dict of the list gained the field.
NoneHasField(list, key) == \A i \in DOMAIN list : key \notin DOMAIN list[i]

\* C26: reciprocal_rank_fusion and rerank_documents leave their arguments
\* as they were: over a call of either function the argument lists keep
\* their length, their order and every field of every record; rrf_score and
\* rerank_score are written to copies only.
C26_InputsUnchanged ==
    [][/\ pc = "fusion_called" => results_dict' = results_dict
       /\ pc \in {"rerank_called", "rerank_awaiting"} => documents' = documents]_vars

\* rerank_documents returned records with a rerank_score made of fused
\* candidates, and the candidates carry their rrf_score and nothing more.
C26_Witness ==
    /\ pc = "rerank_returned"
    /\ rerank_results.kind = "results"
    /\ Len(reranked_docs) = 2
    /\ \A i \in DOMAIN reranked_docs : "rerank_score" \in DOMAIN reranked_docs[i]
    /\ Len(documents) >= 2
    /\ \A i \in DOMAIN documents : "rrf_score" \in DOMAIN documents[i]
    /\ NoneHasField(documents, "rerank_score")

\* ---------------------------------------------- rerank stage: any answer

\* Record r has every field of record d with d's value, and no other field
\* but possibly rerank_score.
CopyWithScore(r, d) ==
    /\ DOMAIN d \subseteq DOMAIN r
    /\ DOMAIN r \subseteq DOMAIN d \cup {"rerank_score"}
    /\ \A f \in DOMAIN d : r[f] = d[f]

\* The items of the answer rerank_documents looks at.
ItemsRead == Take(rerank_results.results, top_n)

\* C29: whatever the rerank API answers, rerank_documents returns at most
\* top_n documents, each a submitted document with at most a rerank_score
\* added; and when no index lies below -len(documents), the items whose index
\* is len(documents) or more are passed over and every other item read
\* yields its document.
C29_AnyAnswerBounded ==
    pc = "rerank_returned" =>
        /\ Len(reranked_docs) <= top_n
        /\ \A i \in DOMAIN reranked_docs :
              \E j \in DOMAIN documents :
                  CopyWithScore(reranked_docs[i], documents[j])
        /\ (/\ rerank_results.kind = "results"
            /\ \A i \in DOMAIN ItemsRead :
                  ItemIndex(ItemsRead[i]) >= -Len(documents))
              => Len(reranked_docs) =
                    Cardinality({i \in DOMAIN ItemsRead :
                                    ItemIndex(ItemsRead[i]) < Len(documents)})

\* An answer whose first item points past the end and whose second item
\* names the last document by -1: one document is returned, the last one.
C29_Witness ==
    /\ pc = "rerank_returned"
    /\ rerank_results.kind = "results"
    /\ top_n = 2
    /\ Len(rerank_results.results) = 2
    /\ ItemIndex(rerank_results.results[1]) >= Len(documents)
    /\ ItemIndex(rerank_results.results[2]) = -1
    /\ Len(documents) >= 2
    /\ reranked_docs =
          <<WithField(documents[Len(documents)], "rerank_score",
                      ItemScore(rerank_results.results[2]))>>

\* ---------------------------------------------------- chunk_text: claims

\* C30: with 0 <= overlap < chunk_size, start is larger after every
\* iteration of the loop of chunk_text than before it, also when the chunk
\* was cut at a mark; so the loop ends.
C30_StartStrictlyIncreases ==
    [][(pc = "chunking" /\ pc' = "chunking"
            /\ 0 <= overlap /\ overlap < chunk_size) => start' > start]_vars

\* ------------------------------------ /query requests at the same time

\* What hybrid_search returns for the backend answers request q received.
FusedAlone(q) ==
    ReciprocalRankFusion(ResultsDict(queries[q].qdrant_task.result,
                                     queries[q].es_task.result), KDefault)

\* Request q has the fused list, and after its rerank stage the reranked
\* list, that its own backend answers give.
OutputAsAlone(q) ==
    /\ queries[q].pc \in {"reranking", "generating", "responded"}
            => queries[q].merged_results = FusedAlone(q)
    /\ queries[q].pc \in {"generating", "responded"}
            => queries[q].reranked_docs =
                  AfterApi(FusedAlone(q), SharedRequest.top_n,
                           queries[q].rerank_results)

\* The module's connection object is the first and only one ever made of
\* its class.
OnlyInstance(instance, made) ==
    /\ made <= 1
    /\ instance = IF made = 0 THEN None ELSE Some(1)

\* C27: however the steps of two requests interleave, each request's fused
\* and reranked lists are those its own backend answers give; each of the
\* two connection classes is instantiated at most once, and the object the
\* requests share stays the one that was made first.
C27_ConcurrentQueriesIsolated ==
    /\ \A q \in QueryIds : OutputAsAlone(q)
    /\ OnlyInstance(clients.qdrant, created.qdrant)
    /\ OnlyInstance(clients.es, created.es)

\* Both requests are past their rerank stage and not yet answered, with
\* different fused lists and different reranked lists, over one connection
\* object for each backend.
C27_Witness ==
    /\ queries["q1"].pc = "generating"
    /\ queries["q2"].pc = "generating"
    /\ queries["q1"].merged_results # queries["q2"].merged_results
    /\ Len(queries["q1"].merged_results) = 2
    /\ queries["q1"].rerank_results.kind = "results"
    /\ Len(queries["q1"].reranked_docs) = 2
    /\ queries["q2"].rerank_results.kind = "timeout"
    /\ queries["q2"].reranked_docs # <<>>
    /\ created = [qdrant |-> 1, es |-> 1]
    /\ clients = [qdrant |-> Some(1), es |-> Some(1)]

\* ------------------------------------------- RetrievalService: claims

\* C15: retrieve and retrieve_with_scores called with use_rerank = True never
\* raise: a failure of the reranker is recovered inside the call.
C15_ServiceNeverRaises ==
    (/\ pc = "service_returned"
     /\ call.method \in {"retrieve", "retrieve_with_scores"}
     /\ call.use_rerank = Some(TRUE))
    => ~retrieved.raised

\* A call of retrieve_with_scores with use_rerank = False has returned.
ScoresWithoutRerank ==
    /\ pc = "service_returned"
    /\ call.method = "retrieve_with_scores"
    /\ call.use_rerank = Some(FALSE)

\* The fusion scores a retrieved candidate can have: one reciprocal-rank
\* term for every retriever that returned it.
RankFusionScores ==
    LET terms == {RRFTerm(KDefault, r) : r \in 0..(MaxDocs - 1)}
    IN  terms \cup {a + b : a, b \in terms}

C17_EachStageOnce ==
    /\ Len(ensemble_calls) <= 1
    /\ Len(model_calls) <= 1
    /\ Len(api_calls) <= 1

====
